---- MODULE Spec2Model ----
(***************************************************************************)
(* A model of diskover_dupes.py: the duplicate-file verification           *)
(* (verify_dupes with the md5_hasher thread pool), the index write-back    *)
(* (index_dupes) and the candidate scan and dispatch loop (dupes_finder).  *)
(*                                                                         *)
(* Modelling conventions                                                   *)
(*  - a file is named by its position in filehash_filelist['files'];       *)
(*    file names within one group are distinct;                            *)
(*  - a byte string is a sequence of small integers;                       *)
(*  - hashlib.md5 and base64 are taken to be injective: a digest is the    *)
(*    tagged value it was computed from, so two digests are equal exactly  *)
(*    when their inputs are;                                               *)
(*  - the md5 field '' of a record is the empty tuple NoMd5;               *)
(*  - the md5_hasher threads are not told apart: the model keeps the set   *)
(*    of requests that some thread holds;                                  *)
(*  - an I/O error is an outcome the environment may choose for any open,  *)
(*    read or seek; MaxFaults bounds the files it hits while sampling;     *)
(*  - the worker bots, worker_bots_busy, adaptive_batch and the progress   *)
(*    bar are outside this file and are modelled at their interface;       *)
(*  - besides the whole of verify_dupes (Spec) there are specifications of *)
(*    its sampling stage with failing time conversions (SpecRestore), of   *)
(*    its confirmation stage on a larger group (SpecBuckets), of the       *)
(*    md5_hasher pool alone (SpecHasher), of index_dupes (SpecWriter) and  *)
(*    of the two phases of dupes_finder (SpecFinder, SpecMonitor).         *)
(***************************************************************************)
EXTENDS Integers, Sequences, FiniteSets, TLC

\* ------------------------------------------------------------------ bounds

\* number of file records in the hash group handed to verify_dupes
NFiles == 3
\* number of files that meet an I/O error while they are sampled
MaxFaults == 1
\* number of records whose timestamp restore fails to convert the time
MaxBadTime == 1
\* number of file documents the index query matches
MaxHits == 6
\* largest batch size
MaxBatch == 3
\* number of jobs enqueued when the monitoring phase starts
MaxJobs == 3
\* number of worker bots
NBots == 2
\* number of polls of the monitoring phase that find the worker bots busy
MaxPolls == 3

\* ------------------------------------------------------ configuration

\* config['dupes_checkbytes']
read_bytes == 2
\* min bytes to read of file size less than above
min_read_bytes == 1
\* config['md5_readsize']
md5_readsize == 2
\* config['dupes_threads']
dupes_threads == 2

Files == 1..NFiles

\* File contents the groups are drawn from: an empty file, a file shorter
\* than read_bytes, and three files of 2*read_bytes+1 bytes of which the
\* first two agree on the head and tail samples but differ in the middle
\* and the third differs from the first in its last byte only.
Contents ==
  { <<>>, <<1>>, <<1, 2, 1, 1, 2>>, <<1, 2, 2, 1, 2>>, <<1, 2, 1, 1, 1>> }

NoMd5 == <<>>

VARIABLES
  \* ---- inputs of verify_dupes
  content,        \* file -> bytes on disk
  badtime,        \* files for which the time conversion of the timestamp
                  \* restore raises; none when dupes_restoretimes is off
  \* ---- verify_dupes
  vpc,            \* position of verify_dupes
  md5,            \* file -> filehash_filelist['files'][i]['md5']
  fi,             \* index of the file the sampling loop is at
  dups,           \* bytehash -> sequence of files
  file_count,
  todo,           \* keys of dups.items() not yet iterated
  cur,            \* key of the bucket being hashed
  k,              \* index of the next file of dups[cur] to submit
  dups_md5,       \* md5 -> sequence of files
  result,         \* "pending", "none" (return None), "group", "raised"
  \* ---- thread queues and md5_hasher threads
  file_in_thread_q,
  unfinished,     \* file_in_thread_q.unfinished_tasks
  file_out_thread_q,
  busy,           \* the md5_hasher threads that hold a request, each as
                  \* [filename, md5, pc]; the other threads wait in get()
  \* ---- history
  faults,         \* number of files that met an I/O error while sampled
  hashfail,       \* files whose hashing raised in md5_hasher
  sigof,          \* file -> the bytehash it was added to dups under, if any
  submitted,      \* files ever put on file_in_thread_q
  hashed,         \* files whose (filename, md5) was put on file_out_thread_q
  restorefail,    \* files whose hashing succeeded in md5_hasher and whose
                  \* timestamp restore then raised
  unclosed,       \* files verify_dupes opened and has not closed
  \* ---- index_dupes
  ipc,            \* index_dupes: "off", "call" (about to run), "done"
  hashgroup,      \* hashgroup['files']: sequence of [id, md5]
  file_id_list,   \* the update operations index_dupes built
  bulk,           \* the calls of index_bulk_add, each with its operation list
  \* ---- dupes_finder
  fpc,            \* position of dupes_finder
  hits,           \* the file documents matching the query, in index order
  scrolled,       \* how many of them search and scroll have returned
  res,            \* res['hits']['hits']: the page being processed
  filehashes,     \* filehash -> sequence of file records
  possibledupescount,
  adaptivebatch,  \* cliargs['adaptivebatch']
  startsize,      \* ab_start when adaptivebatch, else cliargs['batchsize']
  batchsize,
  n,
  hashgroups,     \* the batch being filled
  fkeys,          \* keys of filehashes.items() not yet iterated
  q,              \* the jobs enqueued, each with its list of hashgroups
  inforce,        \* the value of batchsize at each q.enqueue of the loop
  abreturns,      \* the values adaptive_batch returned, in order
  \* ---- dupes_finder, monitoring phase
  quiet,          \* cliargs['quiet']
  verbose,        \* cliargs['verbose']
  debug,          \* cliargs['debug']
  bar,            \* "unset", "bar" (a progress bar) or "none" (bar = None)
  barcalls,       \* the calls made on the progress bar, in order
  polls,          \* number of polls that found the worker bots busy
  pending,        \* len(q): jobs of q no worker bot has taken yet
  working         \* number of worker bots that are running a job

vvars == << content, badtime, vpc, md5, fi, dups, file_count,
            todo, cur, k, dups_md5, result >>
qvars == << file_in_thread_q, unfinished, file_out_thread_q, busy >>
hvars == << faults, hashfail, sigof, submitted, hashed, restorefail, unclosed >>
ivars == << ipc, hashgroup, file_id_list, bulk >>
mvars == << quiet, verbose, debug, bar, barcalls, polls, pending, working >>
bvars == << inforce, abreturns >>
fvars == << fpc, hits, scrolled, res, filehashes, possibledupescount,
            adaptivebatch, startsize, batchsize, n, hashgroups, fkeys, q,
            bvars, mvars >>

\* ------------------------------------------------------------ helpers

Min(a, b) == IF a < b THEN a ELSE b

\* f.read(size) at position pos (0-based) of a file holding c
ReadAt(c, pos, size) == SubSeq(c, pos + 1, Min(Len(c), pos + size))

\* f.seek(-size, os.SEEK_END) raises when the file is shorter than size
SeekEndFails(c, size) == Len(c) < size

\* hexdigest of the streamed read loop of md5_hasher: read md5_readsize
\* bytes at a time until a read returns nothing, feeding the hasher
RECURSIVE StreamRead(_, _, _)
StreamRead(c, pos, acc) ==
  LET buf == ReadAt(c, pos, md5_readsize)
  IN  IF Len(buf) > 0 THEN StreamRead(c, pos + Len(buf), acc \o buf) ELSE acc

HexDigest(bytes) == << "md5", bytes >>

\* a hasher that feeds only the first block read to the digest
FileMd5_FirstBlock(c) == HexDigest(ReadAt(c, 0, md5_readsize))

FileMd5(c) == HexDigest(StreamRead(c, 0, <<>>))

\* ------------------------------------------------- sampling stage

\* Environment faults met while one file is sampled: open raising, and the
\* number of consecutive reads that raise an I/O error on the head and on
\* the tail (0: none, 1: the first read only, 2: the fallback read as well)
IOFaults ==
  { io \in [open : 0..1, head : 0..2, tail : 0..2] :
      io.open = 1 => (io.head = 0 /\ io.tail = 0) }

NoFault == [open |-> 0, head |-> 0, tail |-> 0]

FaultCost(io) == IF io = NoFault THEN 0 ELSE 1

\* bytes_f: f.read(read_bytes), and f.read(min_read_bytes) when that raised
HeadSample(c, io) ==
  IF io.head = 0 THEN [ok |-> TRUE, bytes |-> ReadAt(c, 0, read_bytes)]
  ELSE IF io.head = 1 THEN [ok |-> TRUE, bytes |-> ReadAt(c, 0, min_read_bytes)]
  ELSE [ok |-> FALSE, bytes |-> <<>>]

\* bytes_l: seek to read_bytes before the end and read; when the seek or the
\* read raised, seek to min_read_bytes before the end and read
TailSample(c, io) ==
  IF ~SeekEndFails(c, read_bytes) /\ io.tail = 0
  THEN [ok |-> TRUE, bytes |-> ReadAt(c, Len(c) - read_bytes, read_bytes)]
  ELSE IF ~SeekEndFails(c, min_read_bytes) /\ io.tail < 2
  THEN [ok |-> TRUE, bytes |-> ReadAt(c, Len(c) - min_read_bytes, min_read_bytes)]
  ELSE [ok |-> FALSE, bytes |-> <<>>]

\* base64.b64encode followed by str()
B64Str(bytes) == << "b64", bytes >>

\* bytehash = md5(str(bytes_f) + str(bytes_l))
ByteHash(bytes_f, bytes_l) == HexDigest(<< B64Str(bytes_f), B64Str(bytes_l) >>)

\* the file is skipped by a continue of the sampling loop
SampleSkipped(c, io) ==
  io.open = 1 \/ ~HeadSample(c, io).ok \/ ~TailSample(c, io).ok


\* dups[bytehash].append(...) or dups[bytehash] = [...]
AddTo(d, key, f) ==
  [x \in DOMAIN d \cup {key} |->
     IF x = key THEN (IF key \in DOMAIN d THEN Append(d[key], f) ELSE << f >>)
     ELSE d[x]]

\* config['dupes_restoretimes'] == "true" and time.mktime(time.strptime(...))
\* of the restore raises for this file
TimeConvRaises(f) == f \in badtime

\* a loop that is left at the first file that cannot be sampled
AfterSkip_Break(i) == NFiles + 1

\* continue: the sampling loop goes on with the next file
AfterSkip(i) == i + 1

\* One iteration of the loop over filehash_filelist['files']
VSample ==
  /\ vpc = "sample"
  /\ fi <= NFiles
  /\ \E io \in IOFaults :
       LET c  == content[fi]
           bf == HeadSample(c, io).bytes
           bl == TailSample(c, io).bytes
       IN  /\ faults + FaultCost(io) <= MaxFaults
           /\ faults' = faults + FaultCost(io)
           /\ IF SampleSkipped(c, io)
              THEN \* continue: after a failed open there is no handle, after
                   \* a failed head or tail sample f.close() is not reached
                   /\ fi' = AfterSkip(fi)
                   /\ unclosed' = IF io.open = 1 THEN unclosed
                                   ELSE unclosed \cup { fi }
                   /\ UNCHANGED << vpc, dups, file_count, sigof, result >>
              ELSE IF TimeConvRaises(fi)
              THEN \* strptime is outside every try: the exception leaves
                   \* verify_dupes, after f.close()
                   /\ vpc' = "raised"
                   /\ result' = "raised"
                   /\ UNCHANGED << fi, dups, file_count, sigof, unclosed >>
              ELSE /\ UNCHANGED unclosed
                   /\ dups' = AddTo(dups, ByteHash(bf, bl), fi)
                   /\ file_count' = file_count + 1
                   /\ sigof' = [sigof EXCEPT ![fi] = ByteHash(bf, bl)]
                   /\ fi' = fi + 1
                   /\ UNCHANGED << vpc, result >>
  /\ UNCHANGED << content, badtime, md5, todo, cur, k, dups_md5 >>
  /\ UNCHANGED << hashfail, submitted, hashed, restorefail >>
  /\ UNCHANGED qvars
  /\ UNCHANGED ivars
  /\ UNCHANGED fvars

\* a filter that removes no key
MultiMember_KeepAll(d) == d

\* remove any bytehash key that only has 1 item
MultiMember(d) ==
  LET keep == { key \in DOMAIN d : ~(Len(d[key]) < 2) }
  IN  [key \in keep |-> d[key]]

\* After the sampling loop: the two early returns and the singleton filter
VFilter ==
  /\ vpc = "sample"
  /\ fi > NFiles
  /\ IF file_count = 0
     THEN /\ vpc' = "returned" /\ result' = "none"
          /\ UNCHANGED << dups, todo >>
     ELSE /\ dups' = MultiMember(dups)
          /\ IF DOMAIN dups' = {}
             THEN /\ vpc' = "returned" /\ result' = "none"
                  /\ UNCHANGED todo
             ELSE /\ vpc' = "bucket" /\ todo' = DOMAIN dups'
                  /\ UNCHANGED result
  /\ UNCHANGED << content, badtime, md5, fi, file_count, cur, k, dups_md5 >>
  /\ UNCHANGED hvars
  /\ UNCHANGED qvars
  /\ UNCHANGED ivars
  /\ UNCHANGED fvars

\* --------------------------------------------- confirmation stage

\* for key, value in dups.items(): the next bucket, in any order of the keys;
\* after the last bucket, the check of dups_md5 and the md5 update
AssignMd5(m, dm) ==
  [f \in DOMAIN m |->
     IF \E key \in DOMAIN dm :
          Len(dm[key]) >= 2 /\ \E j \in 1..Len(dm[key]) : dm[key][j] = f
     THEN CHOOSE key \in DOMAIN dm :
          Len(dm[key]) >= 2 /\ \E j \in 1..Len(dm[key]) : dm[key][j] = f
     ELSE m[f]]

VBucket ==
  /\ vpc = "bucket"
  /\ todo # {}
  /\ \E key \in todo :
       /\ cur' = key
       /\ todo' = todo \ {key}
  /\ k' = 1
  /\ vpc' = "submit"
  /\ UNCHANGED << content, badtime, md5, fi, dups, file_count,
                  dups_md5, result >>
  /\ UNCHANGED hvars
  /\ UNCHANGED qvars
  /\ UNCHANGED ivars
  /\ UNCHANGED fvars

\* file_in_thread_q.put((filename, atime, mtime, cliargs)) for one file of
\* the bucket; after the last one verify_dupes goes on to the join
VSubmit ==
  /\ vpc = "submit"
  /\ IF k <= Len(dups[cur])
     THEN /\ file_in_thread_q' = Append(file_in_thread_q, dups[cur][k])
          /\ unfinished' = unfinished + 1
          /\ submitted' = submitted \cup { dups[cur][k] }
          /\ k' = k + 1
          /\ UNCHANGED vpc
     ELSE /\ vpc' = "join"
          /\ UNCHANGED << file_in_thread_q, unfinished, submitted, k >>
  /\ UNCHANGED << content, badtime, md5, fi, dups, file_count,
                  todo, cur, dups_md5, result >>
  /\ UNCHANGED << faults, hashfail, sigof, hashed, restorefail, unclosed >>
  /\ UNCHANGED << file_out_thread_q, busy >>
  /\ UNCHANGED ivars
  /\ UNCHANGED fvars

\* a join that returns while requests are still unfinished
VJoin_NoWait ==
  /\ vpc = "join"
  /\ vpc' = "get"
  /\ UNCHANGED << content, badtime, md5, fi, dups, file_count,
                  todo, cur, k, dups_md5, result >>
  /\ UNCHANGED hvars
  /\ UNCHANGED qvars
  /\ UNCHANGED ivars
  /\ UNCHANGED fvars

\* file_in_thread_q.join() returns once every put has been marked done
VJoin ==
  /\ vpc = "join"
  /\ unfinished = 0
  /\ vpc' = "get"
  /\ UNCHANGED << content, badtime, md5, fi, dups, file_count,
                  todo, cur, k, dups_md5, result >>
  /\ UNCHANGED hvars
  /\ UNCHANGED qvars
  /\ UNCHANGED ivars
  /\ UNCHANGED fvars

\* item = file_out_thread_q.get() blocks while the queue is empty; the item
\* is added to dups_md5
VGet ==
  /\ vpc = "get"
  /\ file_out_thread_q # << >>
  /\ LET item == Head(file_out_thread_q)
     IN  dups_md5' = AddTo(dups_md5, item[2], item[1])
  /\ file_out_thread_q' = Tail(file_out_thread_q)
  /\ vpc' = "qsize"
  /\ UNCHANGED << content, badtime, md5, fi, dups, file_count,
                  todo, cur, k, result >>
  /\ UNCHANGED hvars
  /\ UNCHANGED << file_in_thread_q, unfinished, busy >>
  /\ UNCHANGED ivars
  /\ UNCHANGED fvars

\* a drain loop that is left after the first result
VQsize_BreakAlways ==
  /\ vpc = "qsize"
  /\ vpc' = "bucket"
  /\ UNCHANGED << content, badtime, md5, fi, dups, file_count,
                  todo, cur, k, dups_md5, result >>
  /\ UNCHANGED hvars
  /\ UNCHANGED qvars
  /\ UNCHANGED ivars
  /\ UNCHANGED fvars

\* if file_out_thread_q.qsize() == 0: break
VQsize ==
  /\ vpc = "qsize"
  /\ vpc' = IF Len(file_out_thread_q) = 0 THEN "bucket" ELSE "get"
  /\ UNCHANGED << content, badtime, md5, fi, dups, file_count,
                  todo, cur, k, dups_md5, result >>
  /\ UNCHANGED hvars
  /\ UNCHANGED qvars
  /\ UNCHANGED ivars
  /\ UNCHANGED fvars

\* After the loop over the buckets: return None when dups_md5 is empty,
\* otherwise set the md5 of the files of every key with two or more files
\* and return the group
VFinish ==
  /\ vpc = "bucket"
  /\ todo = {}
  /\ IF DOMAIN dups_md5 = {}
     THEN /\ result' = "none"
          /\ UNCHANGED md5
     ELSE /\ md5' = AssignMd5(md5, dups_md5)
          /\ result' = "group"
  /\ vpc' = "returned"
  /\ UNCHANGED << content, badtime, fi, dups, file_count,
                  todo, cur, k, dups_md5 >>
  /\ UNCHANGED hvars
  /\ UNCHANGED qvars
  /\ UNCHANGED ivars
  /\ UNCHANGED fvars

\* ------------------------------------------------------ md5_hasher

\* The threads started by start_file_threads all run md5_hasher and are not
\* told apart: a thread is either waiting in file_in_thread_q.get() or holds
\* one request, and file names within a group are distinct.
IdleThreads == dupes_threads - Cardinality(busy)

\* item = file_in_thread_q.get() and the try block on it: stream the file
\* into the hasher and restore the times. An open or read error, or an
\* exception of the time conversion, is caught by the outer handlers, which
\* only mark the request done. Nothing shared is touched between the get
\* and the put, so the two are one step.
WHash ==
  /\ IdleThreads > 0
  /\ file_in_thread_q # << >>
  /\ LET item == Head(file_in_thread_q)
     IN  \E ioerr \in BOOLEAN :
           IF ioerr \/ TimeConvRaises(item)
           THEN /\ busy' = busy \cup
                     { [filename |-> item, md5 |-> NoMd5, pc |-> "failed"] }
                /\ hashfail' = hashfail \cup { item }
                /\ restorefail' = IF ioerr THEN restorefail
                                   ELSE restorefail \cup { item }
           ELSE /\ busy' = busy \cup
                     { [filename |-> item, md5 |-> FileMd5(content[item]),
                        pc |-> "put"] }
                /\ UNCHANGED << hashfail, restorefail >>
  /\ file_in_thread_q' = Tail(file_in_thread_q)
  /\ UNCHANGED << unfinished, file_out_thread_q >>
  /\ UNCHANGED vvars
  /\ UNCHANGED ivars
  /\ UNCHANGED fvars
  /\ UNCHANGED << faults, sigof, submitted, hashed, unclosed >>

\* file_out_thread_q.put((filename, md5))
WPut(w) ==
  /\ w \in busy
  /\ w.pc = "put"
  /\ file_out_thread_q' = Append(file_out_thread_q, << w.filename, w.md5 >>)
  /\ hashed' = hashed \cup { w.filename }
  /\ busy' = (busy \ {w}) \cup { [w EXCEPT !.pc = "done"] }
  /\ UNCHANGED << file_in_thread_q, unfinished >>
  /\ UNCHANGED vvars
  /\ UNCHANGED ivars
  /\ UNCHANGED fvars
  /\ UNCHANGED << faults, hashfail, sigof, submitted, restorefail, unclosed >>

\* a thread that is lost once it has marked a failed request done
WTaskDone_ThreadLost(w) ==
  /\ w \in busy
  /\ w.pc \in { "done", "failed" }
  /\ unfinished' = unfinished - 1
  /\ busy' = IF w.pc = "failed"
             THEN (busy \ {w}) \cup { [w EXCEPT !.pc = "lost"] }
             ELSE busy \ {w}
  /\ UNCHANGED << file_in_thread_q, file_out_thread_q >>
  /\ UNCHANGED vvars
  /\ UNCHANGED ivars
  /\ UNCHANGED fvars
  /\ UNCHANGED hvars

\* file_in_thread_q.task_done(), after the put or in an except clause, and
\* back to the get at the top of the loop
WTaskDone(w) ==
  /\ w \in busy
  /\ w.pc \in { "done", "failed" }
  /\ unfinished' = unfinished - 1
  /\ busy' = busy \ {w}
  /\ UNCHANGED << file_in_thread_q, file_out_thread_q >>
  /\ UNCHANGED vvars
  /\ UNCHANGED ivars
  /\ UNCHANGED fvars
  /\ UNCHANGED hvars

\* ------------------------------------------- the md5_hasher pool alone

\* file_in_thread_q.put((filename, atime, mtime, cliargs)): a request for a
\* file not submitted before
HSubmit ==
  /\ \E f \in Files \ submitted :
       /\ file_in_thread_q' = Append(file_in_thread_q, f)
       /\ submitted' = submitted \cup { f }
  /\ unfinished' = unfinished + 1
  /\ UNCHANGED << file_out_thread_q, busy >>
  /\ UNCHANGED << faults, hashfail, sigof, hashed, restorefail, unclosed >>
  /\ UNCHANGED vvars
  /\ UNCHANGED ivars
  /\ UNCHANGED fvars

\* ------------------------------------------------------ index_dupes

\* the index document id of a file record
DocId(f) == << "doc", f >>

\* the update operation built for one file of the group
UpdateOp(rec) ==
  [op_type |-> "update", id |-> rec.id, doc |-> [dupe_md5 |-> rec.md5]]

\* file_id_list: one update operation per file of hashgroup['files']
FileIdList(files) == [j \in 1..Len(files) |-> UpdateOp(files[j])]

\* a writer that calls index_bulk_add whatever the length of the list
BulkAdd_Always(calls, ops) == Append(calls, ops)

\* if len(file_id_list) > 0: index_bulk_add(es, file_id_list, config, cliargs)
BulkAdd(calls, ops) == IF Len(ops) > 0 THEN Append(calls, ops) ELSE calls

\* index_dupes(hashgroup, cliargs)
IndexDupes ==
  /\ ipc = "call"
  /\ file_id_list' = FileIdList(hashgroup)
  /\ bulk' = BulkAdd(bulk, file_id_list')
  /\ ipc' = "done"
  /\ UNCHANGED hashgroup
  /\ UNCHANGED vvars
  /\ UNCHANGED qvars
  /\ UNCHANGED hvars
  /\ UNCHANGED fvars

\* the worker bot hands the group verify_dupes returned to index_dupes,
\* unless verify_dupes returned None
BotIndex ==
  /\ vpc = "returned"
  /\ result = "group"
  /\ ipc = "off"
  /\ hashgroup' = [f \in 1..NFiles |-> [id |-> DocId(f), md5 |-> md5[f]]]
  /\ ipc' = "call"
  /\ UNCHANGED << file_id_list, bulk >>
  /\ UNCHANGED vvars
  /\ UNCHANGED qvars
  /\ UNCHANGED hvars
  /\ UNCHANGED fvars

\* ----------------------------------------------------- dupes_finder

wvars == << vvars, qvars, hvars, ivars >>

\* the values of the filehash field in the index
Fingerprints == { "f1", "f2", "f3" }

\* the batch sizes: cliargs['batchsize'], ab_start and what adaptive_batch
\* returns
BatchSizes == 0..MaxBatch

\* the record dupes_finder keeps of a hit
FileRecord(hit) == [id |-> hit.id, md5 |-> NoMd5]

\* filehashes after the loop over the hits of one page
RECURSIVE AddHits(_, _)
AddHits(fh, page) ==
  IF page = << >> THEN fh
  ELSE AddHits(AddTo(fh, Head(page).filehash, FileRecord(Head(page))), Tail(page))

\* the lengths of the page a search or scroll may return: empty only once
\* every hit has been returned
PageLens == IF scrolled = Len(hits) THEN {0} ELSE 1..(Len(hits) - scrolled)

\* res = es.search(...)
FSearch ==
  /\ fpc = "search"
  /\ \E len \in PageLens :
       /\ res' = SubSeq(hits, scrolled + 1, scrolled + len)
       /\ scrolled' = scrolled + len
  /\ filehashes' = << >>
  /\ fpc' = "scroll"
  /\ UNCHANGED << hits, possibledupescount, adaptivebatch, startsize, batchsize,
                  n, hashgroups, fkeys, q >>
  /\ UNCHANGED mvars
  /\ UNCHANGED bvars
  /\ UNCHANGED wvars

\* one turn of the while loop: the hits of the page, then es.scroll(...)
FScroll ==
  /\ fpc = "scroll"
  /\ Len(res) > 0
  /\ filehashes' = AddHits(filehashes, res)
  /\ \E len \in PageLens :
       /\ res' = SubSeq(hits, scrolled + 1, scrolled + len)
       /\ scrolled' = scrolled + len
  /\ UNCHANGED << fpc, hits, possibledupescount, adaptivebatch, startsize,
                  batchsize, n, hashgroups, fkeys, q >>
  /\ UNCHANGED mvars
  /\ UNCHANGED bvars
  /\ UNCHANGED wvars

\* a filter that keeps the filehashes of a single file too
PossibleDupes_KeepSingle(fh) == fh

\* del filehashes[key] for every key with fewer than 2 files
PossibleDupes(fh) ==
  LET keep == { key \in DOMAIN fh : ~(Len(fh[key]) < 2) }
  IN  [key \in keep |-> fh[key]]

RECURSIVE SumLen(_, _)
SumLen(fh, keys) ==
  IF keys = {} THEN 0
  ELSE LET key == CHOOSE x \in keys : TRUE
       IN  Len(fh[key]) + SumLen(fh, keys \ {key})

\* After the last page: drop the filehashes of a single file, count the
\* possible dupes, return when there is none, else set the batch size
FCount ==
  /\ fpc = "scroll"
  /\ Len(res) = 0
  /\ filehashes' = PossibleDupes(filehashes)
  /\ possibledupescount' = SumLen(filehashes', DOMAIN filehashes')
  /\ IF possibledupescount' = 0
     THEN /\ fpc' = "returned"
          /\ UNCHANGED << batchsize, fkeys >>
     ELSE /\ batchsize' = startsize
          /\ fkeys' = DOMAIN filehashes'
          /\ fpc' = "enqueue"
  /\ n' = 0
  /\ hashgroups' = << >>
  /\ UNCHANGED << hits, scrolled, res, adaptivebatch, startsize, q >>
  /\ UNCHANGED mvars
  /\ UNCHANGED bvars
  /\ UNCHANGED wvars

\* an enqueue that leaves the first hashgroup of the batch out of the job
Enqueue_DropFirst(jobs, groups) == Append(jobs, Tail(groups))

\* q.enqueue(dupes_process_hashkeys, args=(hashgroups, cliargs,), ...): the
\* job holds the hashgroups as they are at the call
Enqueue(jobs, groups) == Append(jobs, groups)

\* One turn of the loop over filehashes.items(), in any order of the keys:
\* append the hashgroup, and enqueue the batch once it has batchsize groups
FEnqueue ==
  /\ fpc = "enqueue"
  /\ fkeys # {}
  /\ \E key \in fkeys :
       LET batch == Append(hashgroups, [filehash |-> key, files |-> filehashes[key]])
       IN  /\ fkeys' = fkeys \ {key}
           /\ IF n + 1 >= batchsize
              THEN /\ q' = Enqueue(q, batch)
                   /\ inforce' = Append(inforce, batchsize)
                   /\ hashgroups' = << >>
                   /\ n' = 0
                   /\ IF adaptivebatch
                      THEN /\ batchsize' \in BatchSizes
                           /\ abreturns' = Append(abreturns, batchsize')
                      ELSE UNCHANGED << batchsize, abreturns >>
              ELSE /\ hashgroups' = batch
                   /\ n' = n + 1
                   /\ UNCHANGED << q, batchsize, inforce, abreturns >>
  /\ UNCHANGED << fpc, hits, scrolled, res, filehashes, possibledupescount,
                  adaptivebatch, startsize >>
  /\ UNCHANGED mvars
  /\ UNCHANGED wvars

\* a dispatcher that forgets the batch left over after the loop
LastBatch_Dropped(jobs, groups, count) == jobs

\* if n > 0: q.enqueue(...)
LastBatch(jobs, groups, count) ==
  IF count > 0 THEN Enqueue(jobs, groups) ELSE jobs

\* After the loop: enqueue what is left of the last batch
FEnqueueRest ==
  /\ fpc = "enqueue"
  /\ fkeys = {}
  /\ q' = LastBatch(q, hashgroups, n)
  /\ fpc' = "monitor"
  /\ UNCHANGED << hits, scrolled, res, filehashes, possibledupescount,
                  adaptivebatch, startsize, batchsize, n, hashgroups, fkeys >>
  /\ UNCHANGED mvars
  /\ UNCHANGED bvars
  /\ UNCHANGED wvars

\* ------------------------------------- dupes_finder, monitoring phase

\* a test that looks at cliargs['quiet'] only
UseProgressBar_QuietOnly == ~quiet

\* not cliargs['quiet'] and not cliargs['debug'] and not cliargs['verbose']
UseProgressBar == ~quiet /\ ~debug /\ ~verbose

\* worker_bots_busy([q]): some worker bot is busy or the queue has a backlog
WorkerBotsBusy == working > 0 \/ pending > 0

\* bar = progress_bar('Checking'); bar.start(), or bar = None
MBar ==
  /\ fpc = "monitor"
  /\ IF UseProgressBar
     THEN /\ bar' = "bar"
          /\ barcalls' = Append(barcalls, << "start" >>)
     ELSE /\ bar' = "none"
          /\ UNCHANGED barcalls
  /\ fpc' = "poll"
  /\ UNCHANGED << hits, scrolled, res, filehashes, possibledupescount,
                  adaptivebatch, startsize, batchsize, n, hashgroups, fkeys, q >>
  /\ UNCHANGED << quiet, verbose, debug, polls, pending, working >>
  /\ UNCHANGED bvars
  /\ UNCHANGED wvars

\* while worker_bots_busy([q]): the test of the loop
MPoll ==
  /\ fpc = "poll"
  /\ IF WorkerBotsBusy
     THEN /\ polls < MaxPolls
          /\ polls' = polls + 1
          /\ fpc' = IF bar = "bar" THEN "update" ELSE "sleep"
     ELSE /\ fpc' = "finish"
          /\ UNCHANGED polls
  /\ UNCHANGED << hits, scrolled, res, filehashes, possibledupescount,
                  adaptivebatch, startsize, batchsize, n, hashgroups, fkeys, q >>
  /\ UNCHANGED << quiet, verbose, debug, bar, barcalls, pending, working >>
  /\ UNCHANGED bvars
  /\ UNCHANGED wvars

\* q_len = len(q); bar.update(q_len), and bar.update(0) when that raised
\* ZeroDivisionError or ValueError
MUpdate ==
  /\ fpc = "update"
  /\ LET q_len == pending
     IN  \E raised \in BOOLEAN :
           barcalls' = Append(barcalls,
                              << "update", IF raised THEN 0 ELSE q_len >>)
  /\ fpc' = "sleep"
  /\ UNCHANGED << hits, scrolled, res, filehashes, possibledupescount,
                  adaptivebatch, startsize, batchsize, n, hashgroups, fkeys, q >>
  /\ UNCHANGED << quiet, verbose, debug, bar, polls, pending, working >>
  /\ UNCHANGED bvars
  /\ UNCHANGED wvars

\* a loop that is left after the sleep instead of polling again
MSleep_Leave ==
  /\ fpc = "sleep"
  /\ fpc' = "finish"
  /\ UNCHANGED << hits, scrolled, res, filehashes, possibledupescount,
                  adaptivebatch, startsize, batchsize, n, hashgroups, fkeys, q >>
  /\ UNCHANGED mvars
  /\ UNCHANGED bvars
  /\ UNCHANGED wvars

\* time.sleep(1) and back to the test of the loop
MSleep ==
  /\ fpc = "sleep"
  /\ fpc' = "poll"
  /\ UNCHANGED << hits, scrolled, res, filehashes, possibledupescount,
                  adaptivebatch, startsize, batchsize, n, hashgroups, fkeys, q >>
  /\ UNCHANGED mvars
  /\ UNCHANGED bvars
  /\ UNCHANGED wvars

\* if bar: bar.finish(), and dupes_finder returns
MFinish ==
  /\ fpc = "finish"
  /\ IF bar = "bar"
     THEN barcalls' = Append(barcalls, << "finish" >>)
     ELSE UNCHANGED barcalls
  /\ fpc' = "done"
  /\ UNCHANGED << hits, scrolled, res, filehashes, possibledupescount,
                  adaptivebatch, startsize, batchsize, n, hashgroups, fkeys, q >>
  /\ UNCHANGED << quiet, verbose, debug, bar, polls, pending, working >>
  /\ UNCHANGED bvars
  /\ UNCHANGED wvars

\* an idle worker bot takes the next job of the queue
BotTake ==
  /\ pending > 0
  /\ working < NBots
  /\ pending' = pending - 1
  /\ working' = working + 1
  /\ UNCHANGED << fpc, hits, scrolled, res, filehashes, possibledupescount,
                  adaptivebatch, startsize, batchsize, n, hashgroups, fkeys, q >>
  /\ UNCHANGED << quiet, verbose, debug, bar, barcalls, polls >>
  /\ UNCHANGED bvars
  /\ UNCHANGED wvars

\* a worker bot ends its job and is idle again
BotFinish ==
  /\ working > 0
  /\ working' = working - 1
  /\ UNCHANGED << fpc, hits, scrolled, res, filehashes, possibledupescount,
                  adaptivebatch, startsize, batchsize, n, hashgroups, fkeys, q >>
  /\ UNCHANGED << quiet, verbose, debug, bar, barcalls, polls, pending >>
  /\ UNCHANGED bvars
  /\ UNCHANGED wvars

\* ------------------------------------------------------ specification

InitQueues ==
  /\ file_in_thread_q = << >>
  /\ unfinished = 0
  /\ file_out_thread_q = << >>
  /\ busy = {}

InitIndexOff ==
  /\ ipc = "off"
  /\ hashgroup = << >>
  /\ file_id_list = << >>
  /\ bulk = << >>

InitMonitorOff ==
  /\ quiet = FALSE
  /\ verbose = FALSE
  /\ debug = FALSE
  /\ bar = "unset"
  /\ barcalls = << >>
  /\ polls = 0
  /\ pending = 0
  /\ working = 0

InitFinderOff ==
  /\ fpc = "off"
  /\ hits = << >>
  /\ scrolled = 0
  /\ res = << >>
  /\ filehashes = << >>
  /\ possibledupescount = 0
  /\ adaptivebatch = FALSE
  /\ startsize = 0
  /\ batchsize = 0
  /\ n = 0
  /\ hashgroups = << >>
  /\ fkeys = {}
  /\ q = << >>
  /\ inforce = << >>
  /\ abreturns = << >>
  /\ InitMonitorOff

InitVerifyOff ==
  /\ content = [f \in Files |-> << >>]
  /\ badtime = {}
  /\ vpc = "off"
  /\ md5 = [f \in Files |-> NoMd5]
  /\ fi = 1
  /\ dups = << >>
  /\ file_count = 0
  /\ todo = {}
  /\ cur = NoMd5
  /\ k = 0
  /\ dups_md5 = << >>
  /\ result = "pending"
  /\ InitQueues
  /\ faults = 0
  /\ hashfail = {}
  /\ sigof = [f \in Files |-> NoMd5]
  /\ submitted = {}
  /\ hashed = {}
  /\ restorefail = {}
  /\ unclosed = {}

\* A worker bot about to call verify_dupes on a group of NFiles records
InitVerify ==
  /\ content \in [Files -> Contents]
  /\ vpc = "sample"
  /\ md5 = [f \in Files |-> NoMd5]
  /\ fi = 1
  /\ dups = << >>
  /\ file_count = 0
  /\ todo = {}
  /\ cur = NoMd5
  /\ k = 0
  /\ dups_md5 = << >>
  /\ result = "pending"
  /\ InitQueues
  /\ faults = 0
  /\ hashfail = {}
  /\ sigof = [f \in Files |-> NoMd5]
  /\ submitted = {}
  /\ hashed = {}
  /\ restorefail = {}
  /\ unclosed = {}
  /\ InitIndexOff
  /\ InitFinderOff

\* with dupes_restoretimes off, or on with times that all convert
Init ==
  /\ badtime = {}
  /\ InitVerify

vars == << vvars, qvars, hvars, ivars, fvars >>

Next ==
  \/ VSample
  \/ VFilter
  \/ VBucket
  \/ VSubmit
  \/ VJoin
  \/ VGet
  \/ VQsize
  \/ VFinish
  \/ WHash
  \/ \E w \in busy : WPut(w)
  \/ \E w \in busy : WTaskDone(w)
  \/ BotIndex
  \/ IndexDupes

Spec == Init /\ [][Next]_vars

\* the sampling stage of verify_dupes with dupes_restoretimes on and up to
\* MaxBadTime records whose atime or mtime does not convert
InitRestore ==
  /\ badtime \in { b \in SUBSET Files : Cardinality(b) <= MaxBadTime }
  /\ InitVerify

NextRestore ==
  \/ VSample
  \/ VFilter

SpecRestore == InitRestore /\ [][NextRestore]_vars

\* index_dupes called on any group of up to NFiles records with distinct ids
WriterMd5s == { NoMd5, FileMd5(<< >>), FileMd5(<< 1 >>) }

WriterGroups ==
  UNION { { g \in [1..len -> [id : { DocId(f) : f \in Files }, md5 : WriterMd5s]] :
              \A i \in 1..len : \A j \in 1..len : g[i].id = g[j].id => i = j }
          : len \in 0..NFiles }

InitWriter ==
  /\ InitVerifyOff
  /\ InitFinderOff
  /\ ipc = "call"
  /\ hashgroup \in WriterGroups
  /\ file_id_list = << >>
  /\ bulk = << >>

NextWriter == IndexDupes

SpecWriter == InitWriter /\ [][NextWriter]_vars

\* dupes_finder run on any index of up to MaxHits matching documents
InitFinder ==
  /\ InitVerifyOff
  /\ InitIndexOff
  /\ fpc = "search"
  /\ \E len \in 0..MaxHits :
       \E fp \in [1..len -> Fingerprints] :
         hits = [i \in 1..len |-> [id |-> DocId(i), filehash |-> fp[i]]]
  /\ scrolled = 0
  /\ res = << >>
  /\ filehashes = << >>
  /\ possibledupescount = 0
  /\ adaptivebatch \in BOOLEAN
  /\ startsize \in BatchSizes
  /\ batchsize = 0
  /\ n = 0
  /\ hashgroups = << >>
  /\ fkeys = {}
  /\ q = << >>
  /\ inforce = << >>
  /\ abreturns = << >>
  /\ InitMonitorOff

NextFinder ==
  \/ FSearch
  \/ FScroll
  \/ FCount
  \/ FEnqueue
  \/ FEnqueueRest

SpecFinder == InitFinder /\ [][NextFinder]_vars

\* dupes_finder at the start of its monitoring phase, with up to MaxJobs jobs
\* enqueued of which the worker bots may have taken or ended some already
MonitorJob(j) ==
  << [filehash |-> "f1",
      files |-> << FileRecord([id |-> DocId(2 * j - 1)]),
                   FileRecord([id |-> DocId(2 * j)]) >>] >>

InitMonitor ==
  /\ InitVerifyOff
  /\ InitIndexOff
  /\ fpc = "monitor"
  /\ hits = << >>
  /\ scrolled = 0
  /\ res = << >>
  /\ filehashes = << >>
  /\ possibledupescount = 0
  /\ adaptivebatch = FALSE
  /\ startsize = 0
  /\ batchsize = 0
  /\ n = 0
  /\ hashgroups = << >>
  /\ fkeys = {}
  /\ \E len \in 1..MaxJobs : q = [j \in 1..len |-> MonitorJob(j)]
  /\ inforce = << >>
  /\ abreturns = << >>
  /\ quiet \in BOOLEAN
  /\ verbose \in BOOLEAN
  /\ debug \in BOOLEAN
  /\ bar = "unset"
  /\ barcalls = << >>
  /\ polls = 0
  /\ pending \in 0..Len(q)
  /\ working \in 0..Min(NBots, Len(q) - pending)

MonitorStep == MBar \/ MPoll \/ MUpdate \/ MSleep \/ MFinish

NextMonitor ==
  \/ MBar
  \/ MPoll
  \/ MUpdate
  \/ MSleep
  \/ MFinish
  \/ BotTake
  \/ BotFinish

\* dupes_finder keeps running, and the worker bots go on taking and ending
\* jobs
SpecMonitor ==
  /\ InitMonitor
  /\ [][NextMonitor]_vars
  /\ WF_vars(MonitorStep)
  /\ WF_vars(BotTake)
  /\ WF_vars(BotFinish)

\* the pool of md5_hasher threads, all waiting, fed with requests for files
\* of which up to MaxBadTime carry an atime or mtime that does not convert
HasherContents == { << >>, << 1 >>, << 1, 2, 1, 1, 2 >> }

InitHasher ==
  /\ content \in [Files -> HasherContents]
  /\ badtime \in { b \in SUBSET Files : Cardinality(b) <= MaxBadTime }
  /\ vpc = "off"
  /\ md5 = [f \in Files |-> NoMd5]
  /\ fi = 1
  /\ dups = << >>
  /\ file_count = 0
  /\ todo = {}
  /\ cur = NoMd5
  /\ k = 0
  /\ dups_md5 = << >>
  /\ result = "pending"
  /\ InitQueues
  /\ faults = 0
  /\ hashfail = {}
  /\ sigof = [f \in Files |-> NoMd5]
  /\ submitted = {}
  /\ hashed = {}
  /\ restorefail = {}
  /\ unclosed = {}
  /\ InitIndexOff
  /\ InitFinderOff

NextHasher ==
  \/ HSubmit
  \/ WHash
  \/ \E w \in busy : WPut(w)
  \/ \E w \in busy : WTaskDone(w)

SpecHasher == InitHasher /\ [][NextHasher]_vars

\* verify_dupes after its sampling stage, for a group of NFiles + 1 files
\* that were all sampled without an I/O error and with dupes_restoretimes
\* off: the confirmation stage and the md5_hasher threads
BucketFiles == 1..(NFiles + 1)

BucketContents == { << 1 >>, << 1, 2, 1, 1, 2 >>, << 1, 2, 2, 1, 2 >> }

\* the sample signature of a file read without an I/O error
Signature(c) ==
  ByteHash(HeadSample(c, NoFault).bytes, TailSample(c, NoFault).bytes)

\* dups after the sampling loop has gone through the files i.. of a group
RECURSIVE SampleAll(_, _, _)
SampleAll(d, i, c) ==
  IF i > Len(c) THEN d
  ELSE IF SampleSkipped(c[i], NoFault) THEN SampleAll(d, i + 1, c)
  ELSE SampleAll(AddTo(d, Signature(c[i]), i), i + 1, c)

InitBuckets ==
  /\ content \in [BucketFiles -> BucketContents]
  /\ badtime = {}
  /\ md5 = [f \in BucketFiles |-> NoMd5]
  /\ fi = NFiles + 2
  /\ dups = MultiMember(SampleAll(<< >>, 1, content))
  /\ file_count = Cardinality({ f \in BucketFiles :
                                  ~SampleSkipped(content[f], NoFault) })
  /\ IF DOMAIN dups = {}
     THEN vpc = "returned" /\ result = "none"
     ELSE vpc = "bucket" /\ result = "pending"
  /\ todo = DOMAIN dups
  /\ cur = NoMd5
  /\ k = 0
  /\ dups_md5 = << >>
  /\ InitQueues
  /\ faults = 0
  /\ hashfail = {}
  /\ sigof = [f \in BucketFiles |->
                IF SampleSkipped(content[f], NoFault) THEN NoMd5
                ELSE Signature(content[f])]
  /\ submitted = {}
  /\ hashed = {}
  /\ restorefail = {}
  /\ unclosed = {}
  /\ InitIndexOff
  /\ InitFinderOff

NextBuckets ==
  \/ VBucket
  \/ VSubmit
  \/ VJoin
  \/ VGet
  \/ VQsize
  \/ VFinish
  \/ WHash
  \/ \E w \in busy : WPut(w)
  \/ \E w \in busy : WTaskDone(w)

SpecBuckets == InitBuckets /\ [][NextBuckets]_vars

\* ============================================================ claims

Returned == vpc = "returned"
Sampled == { f \in Files : sigof[f] # NoMd5 }

\* the full-content hash of a byte string, computed in one piece
FullHash(bytes) == HexDigest(bytes)

\* C1: when verify_dupes has returned from a run without I/O errors, any two
\* files of the group with identical contents carry the same non-empty md5,
\* the full-content hash of that content.
C1_IdenticalContentSameHash ==
  (Returned /\ faults = 0 /\ hashfail = {}) =>
    \A f \in Files : \A g \in Files \ {f} :
      content[f] = content[g] =>
        /\ md5[f] # NoMd5
        /\ md5[f] = md5[g]
        /\ md5[f] = FullHash(content[f])

\* C2: two files whose contents differ never carry the same non-empty md5.
C2_DistinctContentDistinctHash ==
  \A f \in Files : \A g \in Files \ {f} :
    content[f] # content[g] => ~(md5[f] # NoMd5 /\ md5[f] = md5[g])

\* two files of different content were hashed in one sample bucket and
\* verify_dupes returned with a confirmed duplicate among them
C2_Witness ==
  /\ Returned
  /\ faults = 0 /\ hashfail = {}
  /\ \E f \in Files : \E g \in Files \ {f} :
       /\ content[f] # content[g]
       /\ sigof[f] # NoMd5 /\ sigof[f] = sigof[g]
       /\ {f, g} \subseteq hashed
       /\ md5[f] # NoMd5

\* C3: verify_dupes is never blocked for good: until it has left (returned or
\* raised) some step of it or of a hashing thread can be taken.
C3_NeverBlocked ==
  (vpc \notin { "returned", "raised" }) => ENABLED Next

\* C4: once sampling is over, a sampled file whose signature no other sampled
\* file shares has never been submitted for hashing and has no md5; and in the
\* returned group two files of one signature and identical content that were
\* both hashed carry the full-content hash of that content.
C4_SingletonSampleDiscarded ==
  /\ (vpc # "sample") =>
       \A f \in Sampled :
         (\A g \in Sampled \ {f} : sigof[g] # sigof[f]) =>
           (f \notin submitted /\ md5[f] = NoMd5)
  /\ (Returned /\ result = "group") =>
       \A f \in Files : \A g \in Files \ {f} :
         ( /\ sigof[f] # NoMd5 /\ sigof[f] = sigof[g]
           /\ content[f] = content[g]
           /\ {f, g} \subseteq hashed ) =>
         (md5[f] = FullHash(content[f]) /\ md5[g] = md5[f])

\* A and B identical, C differs from them in its last byte only: A and B
\* share their hash, C was never submitted and has none
C4_Witness ==
  /\ Returned
  /\ faults = 0 /\ hashfail = {}
  /\ \E a \in Files : \E b \in Files \ {a} : \E c \in Files \ {a, b} :
       /\ content[a] = content[b]
       /\ Len(content[c]) = Len(content[a])
       /\ Len(content[a]) > 2 * read_bytes
       /\ \A j \in 1..Len(content[a]) :
            (content[c][j] # content[a][j]) <=> (j = Len(content[a]))
       /\ md5[a] = FullHash(content[a]) /\ md5[b] = md5[a]
       /\ c \notin submitted /\ md5[c] = NoMd5

\* C5: in a run without I/O errors two empty files of the group are both
\* sampled, under equal signatures, and both carry the hash of empty content.
C5_EmptyFilesShareHash ==
  (Returned /\ faults = 0 /\ hashfail = {}) =>
    \A f \in Files : \A g \in Files \ {f} :
      (content[f] = << >> /\ content[g] = << >>) =>
        /\ {f, g} \subseteq Sampled
        /\ sigof[f] = sigof[g]
        /\ md5[f] = FullHash(<< >>) /\ md5[g] = FullHash(<< >>)

\* C6: verify_dupes returns None when no file was sampled, when no sample
\* bucket has two or more files, and when no md5 has two or more files.
C6_NothingConfirmedIsNone ==
  Returned =>
    ( ( \/ file_count = 0
        \/ DOMAIN MultiMember(dups) = {}
        \/ ~\E key \in DOMAIN dups_md5 : Len(dups_md5[key]) >= 2 )
      => result = "none" )

\* C7: index_dupes, applied to the group verify_dupes returned, builds no
\* update operation for a file whose md5 is still empty.
C7_OnlyConfirmedGetOps ==
  \A j \in 1..Len(file_id_list) : file_id_list[j].doc.dupe_md5 # NoMd5

RecordsOf(fp) ==
  LET own == SelectSeq(hits, LAMBDA h : h.filehash = fp)
  IN  [j \in 1..Len(own) |-> FileRecord(own[j])]

\* C9: every hashgroup of every enqueued job has at least 2 file records, and
\* its filehash is not one that occurs on exactly one hit.
C9_GroupsHaveTwoFiles ==
  \A j \in 1..Len(q) : \A g \in 1..Len(q[j]) :
    /\ Len(q[j][g].files) >= 2
    /\ Len(RecordsOf(q[j][g].filehash)) # 1

\* a job was enqueued from an index in which some fingerprint occurs on one
\* hit only, between the hits of another fingerprint
C9_Witness ==
  /\ fpc = "monitor"
  /\ Len(q) >= 1
  /\ \E a \in 1..Len(hits) : \E b \in 1..Len(hits) : \E c \in 1..Len(hits) :
       /\ a < b /\ b < c
       /\ hits[a].filehash = hits[c].filehash
       /\ Len(RecordsOf(hits[b].filehash)) = 1

\* the places of the enqueued jobs that hold a hashgroup of a fingerprint
PlacesOf(fp) ==
  { pl \in (1..Len(q)) \X (1..MaxHits) :
      pl[2] <= Len(q[pl[1]]) /\ q[pl[1]][pl[2]].filehash = fp }

\* C10: when the enqueue phase has ended, every fingerprint of two or more
\* hits is in exactly one place of the enqueued jobs, with all its records,
\* and no job is empty.
C10_EveryGroupEnqueuedOnce ==
  (fpc = "monitor") =>
    /\ \A fp \in Fingerprints :
         Len(RecordsOf(fp)) >= 2 =>
           /\ Cardinality(PlacesOf(fp)) = 1
           /\ \A pl \in PlacesOf(fp) : q[pl[1]][pl[2]].files = RecordsOf(fp)
    /\ \A j \in 1..Len(q) : Len(q[j]) > 0

\* adaptive batching changed the batch size between two jobs and the last
\* job is a partial batch
C10_Witness ==
  /\ fpc = "monitor"
  /\ adaptivebatch
  /\ Len(q) = 2
  /\ Len(q[1]) = startsize
  /\ batchsize # startsize
  /\ Len(q[2]) < batchsize
  /\ n > 0

\* the files of a sequence of files
FilesIn(list) == { list[j] : j \in 1..Len(list) }

\* the files whose result verify_dupes has taken from file_out_thread_q
Drained == UNION { FilesIn(dups_md5[key]) : key \in DOMAIN dups_md5 }

\* the files whose result is waiting in file_out_thread_q
InOutQueue == { file_out_thread_q[j][1] : j \in 1..Len(file_out_thread_q) }

\* verify_dupes is past the join of the current bucket and has taken no
\* result of that bucket yet
AtFirstGet == vpc = "get" /\ FilesIn(dups[cur]) \cap Drained = {}

\* C11: when verify_dupes is about to take the first result of a bucket,
\* every request of the bucket has been marked done (nothing is queued or
\* unfinished), no hashing thread holds a request, every file of the bucket
\* was hashed or failed, and the results waiting in the outbound queue are
\* exactly those of the files of the bucket that were hashed.
C11_JoinBarrier ==
  AtFirstGet =>
    /\ unfinished = 0
    /\ file_in_thread_q = << >>
    /\ busy = {}
    /\ FilesIn(dups[cur]) \subseteq hashed \cup hashfail
    /\ InOutQueue = FilesIn(dups[cur]) \cap hashed

\* the join of a bucket of three files has returned with one hashing failed
\* and the two other results waiting
C11_Witness ==
  /\ AtFirstGet
  /\ Len(dups[cur]) = 3
  /\ Cardinality(FilesIn(dups[cur]) \cap hashfail) = 1
  /\ Len(file_out_thread_q) = 2

\* the monitoring loop of dupes_finder has been left
MonitorEnded == fpc \in { "finish", "done" }

\* C12: the monitoring loop is left only by a poll that finds the queue
\* empty and no worker bot busy, and while the worker bots go on taking and
\* ending jobs the loop is left at some time and dupes_finder returns.
C12_MonitorEnds ==
  /\ [][ (~MonitorEnded /\ MonitorEnded') =>
           (fpc = "poll" /\ pending = 0 /\ working = 0) ]_vars
  /\ <>(fpc = "done")

\* the loop was left after two or more polls that found the worker bots
\* busy with the jobs enqueued
C12_Witness ==
  /\ fpc = "done"
  /\ polls >= 2
  /\ Len(q) >= 2
  /\ pending = 0 /\ working = 0

\* C13: a failure of the timestamp restore after a file was sampled is not
\* fatal: verify_dupes never raises, and once the sampling loop has passed a
\* file whose restore fails and that met no I/O error, the file is a
\* candidate.
C13_RestoreFailureNotFatal ==
  /\ vpc # "raised"
  /\ \A f \in badtime :
       (fi > f /\ faults = 0 /\ ~SampleSkipped(content[f], NoFault)) =>
         f \in Sampled

\* the requests md5_hasher has marked done
Completed ==
  { f \in submitted :
      /\ \A j \in 1..Len(file_in_thread_q) : file_in_thread_q[j] # f
      /\ \A w \in busy : w.filename # f }

\* C14: when the timestamp restore raises after a file was hashed in full,
\* the (filename, md5) result of the file is on the outbound queue once the
\* request is marked done.
C14_RestoreFailureSwallowed ==
  \A f \in restorefail \cap Completed : f \in hashed

\* the sample signature of a file that is read without an I/O error
ExpectedSig(f) ==
  ByteHash(HeadSample(content[f], NoFault).bytes,
           TailSample(content[f], NoFault).bytes)

\* the files left out of the candidates although they can be sampled when
\* no I/O error is met
Failed ==
  { f \in Files : sigof[f] = NoMd5 /\ ~SampleSkipped(content[f], NoFault) }

\* the md5 of file f when the group is verified without the files of X and
\* without I/O errors: the hash of its content when another file shares its
\* signature and its content hash, and none otherwise
VerifiedWithout(X, f) ==
  LET S == { g \in Files \ X : ~SampleSkipped(content[g], NoFault) }
  IN  IF /\ f \in S
         /\ \E g \in S \ {f} :
              /\ ExpectedSig(g) = ExpectedSig(f)
              /\ FileMd5(content[g]) = FileMd5(content[f])
      THEN FileMd5(content[f])
      ELSE NoMd5

\* C15: a file that cannot be opened or read while it is sampled is the only
\* file left out: verify_dupes does not raise, no more files are left out
\* than met an I/O error, and when every file that met an I/O error was left
\* out and every hashing succeeded, each file carries the md5 it gets when
\* the group is verified without the files left out.
C15_OnlyFailedFileExcluded ==
  /\ vpc # "raised"
  /\ Returned =>
       /\ Cardinality(Failed) <= faults
       /\ (hashfail = {} /\ Cardinality(Failed) = faults) =>
            \A f \in Files : md5[f] = VerifiedWithout(Failed, f)

\* three identical files of which one could not be read while sampled: the
\* two others are confirmed, the first has no md5
C15_Witness ==
  /\ Returned
  /\ faults = 1 /\ hashfail = {}
  /\ \E c \in Failed : \E a \in Files \ {c} : \E b \in Files \ {a, c} :
       /\ content[a] = content[c] /\ content[b] = content[c]
       /\ unclosed = {c}
       /\ md5[a] = FullHash(content[a]) /\ md5[b] = md5[a]
       /\ md5[c] = NoMd5

\* C16: whenever verify_dupes moves on to the next file or has returned or
\* raised, it has closed every file it opened.
C16_HandlesClosed == unclosed = {}

\* C17: every job enqueued inside the loop holds exactly as many hashgroups
\* as the batch size then in force, when that is 1 or more; only the last
\* job may be enqueued after the loop. Without adaptive batching
\* adaptive_batch is never called and the size in force is the configured
\* one throughout; with it the size in force is the start value at the
\* first enqueue and then the value adaptive_batch returned right after the
\* previous enqueue of the loop.
C17_JobsHoldBatchSize ==
  /\ Len(inforce) <= Len(q)
  /\ Len(q) <= Len(inforce) + 1
  /\ (Len(q) = Len(inforce) + 1) => fpc = "monitor"
  /\ \A j \in 1..Len(inforce) :
       inforce[j] >= 1 => Len(q[j]) = inforce[j]
  /\ IF adaptivebatch
     THEN /\ Len(abreturns) = Len(inforce)
          /\ \A j \in 1..Len(inforce) :
               inforce[j] = IF j = 1 THEN startsize ELSE abreturns[j - 1]
          /\ (fpc = "enqueue" /\ Len(abreturns) > 0) =>
               batchsize = abreturns[Len(abreturns)]
     ELSE /\ abreturns = << >>
          /\ \A j \in 1..Len(inforce) : inforce[j] = startsize
          /\ fpc = "enqueue" => batchsize = startsize

\* with adaptive batching a job of two hashgroups was enqueued under the
\* start value 2 and, after adaptive_batch returned 1, a job of one
\* hashgroup
C17_Witness ==
  /\ fpc = "monitor"
  /\ adaptivebatch
  /\ startsize = 2
  /\ inforce = << 2, 1 >>
  /\ abreturns[1] = 1
  /\ Len(q) = 2
  /\ Len(q[1]) = 2 /\ Len(q[2]) = 1

\* the files of the sample buckets verify_dupes is done with
DoneBuckets ==
  UNION { FilesIn(dups[key]) :
            key \in DOMAIN dups \ (todo \cup (IF vpc = "bucket" \/ Returned
                                               THEN {} ELSE { cur })) }

\* C18: the sample buckets are hashed one after another. Between two
\* buckets and when verify_dupes has returned, both thread queues are empty,
\* no request is unfinished or held by a thread, and the results taken so
\* far are exactly those of the hashed files of the buckets done. While a
\* bucket is being hashed, only files of that bucket and of the buckets done
\* have been submitted, the requests and results of the buckets done are
\* completed and taken, and every result waiting or taken beyond them is
\* that of a hashed file of this bucket.
C18_BucketsOneAtATime ==
  /\ (vpc = "bucket" \/ Returned) =>
       /\ file_in_thread_q = << >>
       /\ file_out_thread_q = << >>
       /\ unfinished = 0
       /\ busy = {}
       /\ submitted = DoneBuckets
       /\ Drained = hashed
  /\ (vpc \in { "submit", "join", "get", "qsize" }) =>
       /\ submitted \subseteq DoneBuckets \cup FilesIn(dups[cur])
       /\ DoneBuckets \subseteq Completed
       /\ DoneBuckets \cap hashed \subseteq Drained
       /\ (Drained \cup InOutQueue) \ DoneBuckets \subseteq
            FilesIn(dups[cur]) \cap hashed
       /\ vpc \in { "submit", "join" } => Drained \subseteq DoneBuckets

\* the second of two buckets of two files is being submitted, after both
\* results of the first were taken
C18_Witness ==
  /\ vpc = "submit"
  /\ k = 2
  /\ Cardinality(DoneBuckets) = 2
  /\ Cardinality(Drained) = 2
  /\ Len(dups[cur]) = 2
  /\ todo = {}

\* the numbers of put() and of task_done() calls on file_in_thread_q, and of
\* put() calls on file_out_thread_q of which no result was taken yet
Submissions == Cardinality(submitted)
Completions == Submissions - unfinished
Results == Len(file_out_thread_q)

\* the results on file_out_thread_q that carry a file
ResultsOf(f) ==
  Cardinality({ j \in 1..Len(file_out_thread_q) : file_out_thread_q[j][1] = f })

\* the threads that have put their result and not yet marked the request done
BetweenPutAndDone == { w \in busy : w.pc = "done" }

\* the number of completions never exceeds the number of submissions and the
\* number of results never exceeds the number of completions
C19_ResultsWithinCompletions ==
  /\ Completions <= Submissions
  /\ Results <= Completions

\* C19: every request is queued, held by one thread or marked done, and is
\* marked done once: the requests not marked done are those queued or held.
\* A request has at most one result, has one when its hashing succeeded and
\* the put was made, and never one when its hashing failed. The completions
\* never exceed the submissions; the results never exceed the completions
\* plus the threads that have put their result and not yet marked their
\* request done. No more threads than the pool has hold a request, and once
\* every request is done every thread is waiting again.
C19_DoneExactlyOnce ==
  /\ unfinished = Len(file_in_thread_q) + Cardinality(busy)
  /\ \A f \in Files :
       /\ ResultsOf(f) <= 1
       /\ ResultsOf(f) = 1 <=> f \in hashed
       /\ f \in hashfail => ResultsOf(f) = 0
       /\ f \in Completed => (ResultsOf(f) = 1 <=> f \notin hashfail)
  /\ Completions <= Submissions
  /\ Results <= Completions + Cardinality(BetweenPutAndDone)
  /\ Cardinality(busy) <= dupes_threads
  /\ (file_in_thread_q = << >> /\ unfinished = 0) => busy = {}

\* three requests are done, one of them after its hashing failed and two
\* with a result, and every thread is waiting again
C19_Witness ==
  /\ Submissions = 3
  /\ Completions = 3
  /\ Cardinality(hashfail) = 1
  /\ Results = 2
  /\ busy = {}

\* none of cliargs['quiet'], cliargs['verbose'] and cliargs['debug'] is set
NoFlagSet == ~quiet /\ ~verbose /\ ~debug

\* the number of calls of a method in barcalls
CallsOf(method) ==
  Cardinality({ j \in 1..Len(barcalls) : barcalls[j][1] = method })

\* the calls on the progress bar so far, for the position dupes_finder is at
C20_Calls ==
  IF NoFlagSet /\ fpc # "monitor"
  THEN /\ bar = "bar"
       /\ barcalls[1] = << "start" >>
       /\ CallsOf("start") = 1
       /\ CallsOf("update") = IF fpc = "update" THEN polls - 1 ELSE polls
       /\ CallsOf("finish") = IF fpc = "done" THEN 1 ELSE 0
       /\ fpc = "done" => barcalls[Len(barcalls)] = << "finish" >>
       /\ Len(barcalls) = 1 + CallsOf("update") + CallsOf("finish")
  ELSE /\ barcalls = << >>
       /\ fpc = "monitor" => polls = 0

\* a step that calls the progress bar makes the one call of its position:
\* start before the first poll, update with the queue length or with 0 after
\* a poll that found the worker bots busy, finish after the loop; and after
\* an update dupes_finder sleeps and polls again
C20_Step ==
  /\ barcalls' # barcalls =>
       \E call \in ( IF fpc = "monitor" THEN { << "start" >> }
                     ELSE IF fpc = "update"
                     THEN { << "update", pending >>, << "update", 0 >> }
                     ELSE IF fpc = "finish" THEN { << "finish" >> }
                     ELSE {} ) :
         barcalls' = Append(barcalls, call)
  /\ (fpc = "update" /\ fpc' # fpc) => fpc' = "sleep"
  /\ (fpc = "sleep" /\ fpc' # fpc) => fpc' = "poll"

\* C20: the progress bar is used exactly when none of quiet, verbose and
\* debug is set: then it is started once before the first poll, updated once
\* for each poll that finds the worker bots busy, with the length of the
\* queue or with 0, polling going on after the update, and finished once
\* after the last poll; else none of start, update and finish is called.
C20_ProgressBarCalls == [] C20_Calls /\ [][C20_Step]_vars

\* dupes_finder has returned after a start, an update with a queue length
\* of two jobs, a later update with 0 and the finish
C20_Witness ==
  /\ fpc = "done"
  /\ NoFlagSet
  /\ barcalls = << << "start" >>, << "update", 2 >>, << "update", 0 >>,
                   << "finish" >> >>

====
